---- MODULE Spec2Model ----
(***************************************************************************)
(* A model of the two compliance-report scripts:                           *)
(*   heatmap_adder.py                         (AdvancedComplianceReporter) *)
(*   powerpipe_graph_analysis_pivot_table.py  (category pivot report)      *)
(*                                                                         *)
(* Tables (pandas DataFrames) are sequences of records, in row order.      *)
(* Risk scores are kept in hundredths (15.0 is 1500); the product          *)
(* priority_impact * status_multiplier is formed in thousandths and        *)
(* round(x, 2) takes it to hundredths, half to even as Python's round.     *)
(* A percentage that need not be a finite decimal is kept as the exact     *)
(* fraction <<numerator, denominator>>.                                    *)
(***************************************************************************)
EXTENDS Integers, Sequences, FiniteSets, TLC

VARIABLES pc, df, priority_df, enriched_df, metadata, summary,
          report_df, summary_data, safe_summary_data, service, sr_no, sr_no_safe,
          artifacts, printed, workbook, graph_df, charts

vars == <<pc, df, priority_df, enriched_df, metadata, summary,
          report_df, summary_data, safe_summary_data, service, sr_no, sr_no_safe,
          artifacts, printed, workbook, graph_df, charts>>

\* the files a run has written and the messages main has printed
output_vars == <<artifacts, printed>>

reporter_vars == <<df, priority_df, enriched_df, metadata, summary, output_vars>>

\* the workbook written, the table read back from it and the series charted
graph_vars == <<workbook, graph_df, charts>>

pivot_vars == <<report_df, summary_data, safe_summary_data, service, sr_no, sr_no_safe,
                graph_vars>>

----------------------------------------------------------------------------
(* Bounds of the model.                                                    *)

\* rows of the compliance table loaded by the reporter
MaxRows == 2
\* rows of the priority annotations table
MaxRef == 2
\* rows of an enriched table handed to generate_executive_summary
MaxEnriched == 6
\* rows of the report read by create_simplified_report_with_pivot
MaxPivotRows == 2

----------------------------------------------------------------------------
(* Generic helpers on sequences.                                           *)

\* All sequences over S of length at most n.
SeqsUpTo(S, n) == UNION {[1..k -> S] : k \in 0..n}

RECURSIVE SumSeq(_)
SumSeq(s) == IF s = <<>> THEN 0 ELSE Head(s) + SumSeq(Tail(s))

Min(a, b) == IF a <= b THEN a ELSE b

\* Python's str ordering (code point order) on the strings the model uses,
\* as the position in this ascending list.
AsciiOrder == <<"A", "ACM", "Account", "B", "C", "EC2", "ECS", "High", "IAM",
                "KMS", "Low", "Medium", "RDS", "S3", "VPC", "d">>

StrRank(s) == CHOOSE i \in 1..Len(AsciiOrder) : AsciiOrder[i] = s

----------------------------------------------------------------------------
(* heatmap_adder.py: configuration.                                        *)

\* ComplianceConfig.PRIORITY_IMPACT with .get(priority, 0)
PRIORITY_IMPACT(priority) ==
    CASE priority = "High"   -> 10
      [] priority = "Medium" -> 5
      [] priority = "Low"    -> 2
      [] priority = "Safe"   -> 0
      [] OTHER               -> 0

\* the status_multiplier dict with .get(status, 1), in thousandths
STATUS_MULTIPLIER(status) ==
    CASE status = "alarm" -> 1500
      [] status = "ok"    -> 100
      [] status = "info"  -> 200
      [] status = "skip"  -> 100
      [] OTHER            -> 1000

\* round(x, 2) of a value given in thousandths, result in hundredths
\* (round half to even)
Round2(milli) ==
    LET q == milli \div 10
        r == milli % 10
    IN  IF r > 5 \/ (r = 5 /\ q % 2 = 1) THEN q + 1 ELSE q

\* a scoring that forgets the status multiplier
ScoreIgnoringStatus(priority, status) ==
    Round2(PRIORITY_IMPACT(priority) * 1000)

_calculate_risk_score(priority, status) ==
    Round2(PRIORITY_IMPACT(priority) * STATUS_MULTIPLIER(status))

\* a whole number as a score in hundredths
Hundredths(n) == n * 100

----------------------------------------------------------------------------
(* heatmap_adder.py: AdvancedComplianceReporter.enrich_data                *)

\* a lookup that forgets the join key
MatchingAnyRow(pdf, control_title) == pdf

\* self.priority_df[self.priority_df["control_title"] == control_title]
MatchingRows(pdf, control_title) ==
    SelectSeq(pdf, LAMBDA r : r.control_title = control_title)

\* a lookup that takes the last match, as a dict built from the table would
LastMatch(matching_row) == matching_row[Len(matching_row)]

\* matching_row.iloc[0]
FirstMatch(matching_row) == matching_row[1]

\* the values written when no reference row matches
DefaultPriority == "No Priority"

DefaultRecommendation == "No recommendation available"

DefaultRiskScore == 0

\* one iteration of the loop over enriched_df.iterrows()
EnrichRow(row, pdf) ==
    LET matching_row == MatchingRows(pdf, row.control_title)
    IN  IF matching_row # <<>>
        THEN LET priority == FirstMatch(matching_row).priority
                 recommendation == FirstMatch(matching_row).recommendation
             IN  [title          |-> row.title,
                  control_title  |-> row.control_title,
                  status         |-> row.status,
                  priority       |-> priority,
                  recommendation |-> recommendation,
                  risk_score     |-> _calculate_risk_score(priority, row.status)]
        ELSE [title          |-> row.title,
              control_title  |-> row.control_title,
              status         |-> row.status,
              priority       |-> DefaultPriority,
              recommendation |-> DefaultRecommendation,
              risk_score     |-> Hundredths(DefaultRiskScore)]

\* the table enrich_data returns: the copy of self.df, every row enriched
enrich_data(table, pdf) == [idx \in 1..Len(table) |-> EnrichRow(table[idx], pdf)]

----------------------------------------------------------------------------
(* heatmap_adder.py: calculate_compliance_score                            *)

\* the statuses counted as passed
PassedStatuses == {"ok", "info", "skip"}

\* a count that takes every status but alarm as passed
NonAlarmControls(table) ==
    Len(SelectSeq(table, LAMBDA r : r.status # "alarm"))

\* len(self.df[self.df['status'].isin(['ok', 'info', 'skip'])])
passed_controls(table) ==
    Len(SelectSeq(table, LAMBDA r : r.status \in PassedStatuses))

\* (passed_controls / total_controls) * 100 as an exact fraction;
\* the caller guards total_controls > 0 (the division raises otherwise)
compliance_score(table) == <<passed_controls(table) * 100, Len(table)>>

----------------------------------------------------------------------------
(* heatmap_adder.py: generate_executive_summary and its helpers            *)

\* the strings of a finite set in ascending str order (groupby sorts its keys)
RECURSIVE SortedKeys(_)
SortedKeys(S) ==
    IF S = {} THEN <<>>
    ELSE LET k == CHOOSE x \in S : \A y \in S : StrRank(x) <= StrRank(y)
         IN  <<k>> \o SortedKeys(S \ {k})

\* x put into s, which is in descending risk_score order, behind every
\* element that is not smaller: equal scores keep their order of arrival
RECURSIVE InsertDesc(_, _)
InsertDesc(x, s) ==
    IF s = <<>> THEN <<x>>
    ELSE IF Head(s).risk_score >= x.risk_score
         THEN <<Head(s)>> \o InsertDesc(x, Tail(s))
         ELSE <<x>> \o s

\* sort by risk_score, descending; rows of equal score stay in table order
\* (numpy sorts tables of this size by insertion)
RECURSIVE SortDescByRisk(_)
SortDescByRisk(s) ==
    IF s = <<>> THEN <<>>
    ELSE InsertDesc(s[Len(s)], SortDescByRisk(SubSeq(s, 1, Len(s) - 1)))

\* .head(n)
HeadN(s, n) == SubSeq(s, 1, Min(n, Len(s)))

\* no filter on the rows' scores before grouping
AllRiskRows(table) == table

\* enriched_df[enriched_df['risk_score'] > 5]
HighRiskRows(table) == SelectSeq(table, LAMBDA r : r.risk_score > Hundredths(5))

\* a grouping that keeps each title's first score instead of the sum
GroupByFirst(rows) ==
    LET keys == SortedKeys({rows[i].title : i \in 1..Len(rows)})
    IN  [k \in 1..Len(keys) |->
            [title      |-> keys[k],
             risk_score |-> SelectSeq(rows, LAMBDA r : r.title = keys[k])[1].risk_score]]

\* .groupby('title')['risk_score'].sum(): one entry per title, in key order
GroupBySum(rows) ==
    LET keys == SortedKeys({rows[i].title : i \in 1..Len(rows)})
    IN  [k \in 1..Len(keys) |->
            [title      |-> keys[k],
             risk_score |-> SumSeq([j \in 1..Len(SelectSeq(rows, LAMBDA r : r.title = keys[k]))
                                     |-> SelectSeq(rows, LAMBDA r : r.title = keys[k])[j].risk_score])]]

\* the first n in group order, unsorted (head in place of nlargest)
FirstN(series, n) == HeadN(series, n)

\* .nlargest(n): the n largest, descending, the first of equals kept first
NLargest(series, n) == HeadN(SortDescByRisk(series), n)

\* the 'High Risk Services' of the summary
high_risk_services(table) == NLargest(GroupBySum(HighRiskRows(table)), 5)

\* a filter that lets rows of score 0 through
NonNegativeRiskRows(table) == SelectSeq(table, LAMBDA r : r.risk_score >= 0)

\* enriched_df[enriched_df['risk_score'] > 0]
PositiveRiskRows(table) == SelectSeq(table, LAMBDA r : r.risk_score > 0)

\* [['title', 'control_title', 'Recommendation Steps/Approach', 'risk_score']]
ProjectRecommendation(r) ==
    [title          |-> r.title,
     control_title  |-> r.control_title,
     recommendation |-> r.recommendation,
     risk_score     |-> r.risk_score]

_extract_top_recommendations(table) ==
    LET top == HeadN(SortDescByRisk(PositiveRiskRows(table)), 5)
    IN  [i \in 1..Len(top) |-> ProjectRecommendation(top[i])]

----------------------------------------------------------------------------
(* heatmap_adder.py: the reporter as a state machine.                      *)
(*   pc = "loaded"     __init__ has read both input files                  *)
(*   pc = "enriched"   enrich_data has returned                            *)
(*   pc = "summarized" generate_executive_summary has returned             *)
(*   pc = "failed"     an exception has left generate_comprehensive_report *)

\* self.metadata as __init__ sets it (the score 0.0 as the fraction 0/1)
InitialMetadata == [total_controls |-> 0, compliance_score |-> <<0, 1>>]

NoSummary == [high_risk_services |-> <<>>, top_recommendations |-> <<>>]

\* the statuses and control titles of the compliance rows drawn
Statuses == {"alarm", "ok", "info", "skip", "error"}

RowControlTitles == {"A", "C"}

\* the reference rows drawn: control title "A" with every priority ("Urgent"
\* is one PRIORITY_IMPACT lacks), and "B", which no compliance row carries
Priorities == {"High", "Medium", "Low", "Safe", "Urgent"}

RefRows ==
    [control_title : {"A"}, priority : Priorities]
        \cup [control_title : {"B"}, priority : {"Low"}]

\* the recommendation text of the i-th reference row (each row its own)
RecommendationTexts == <<"rec1", "rec2", "rec3", "rec4">>

ComplianceTables ==
    SeqsUpTo([title : {"EC2"}, control_title : RowControlTitles, status : Statuses],
             MaxRows)

PriorityTables ==
    {[i \in 1..Len(t) |-> [control_title  |-> t[i].control_title,
                           priority       |-> t[i].priority,
                           recommendation |-> RecommendationTexts[i]]] :
        t \in SeqsUpTo(RefRows, MaxRef)}

\* no workbook written, no table read back, nothing charted
NoWorkbook == [safe |-> <<>>, unsafe |-> <<>>]

NoCharts ==
    [open_issues_by_service |-> <<>>, priority_breakdown |-> <<>>,
     safe_unsafe_controls |-> <<>>]

PivotIdle ==
    /\ report_df = <<>>
    /\ summary_data = <<>>
    /\ safe_summary_data = <<>>
    /\ service = 0
    /\ sr_no = 0
    /\ sr_no_safe = 0
    /\ workbook = NoWorkbook
    /\ graph_df = <<>>
    /\ charts = NoCharts

\* nothing written to compliance_reports/, nothing printed
NoOutput ==
    /\ artifacts = {}
    /\ printed = <<>>

Init ==
    /\ pc = "loaded"
    /\ df \in ComplianceTables
    /\ priority_df \in PriorityTables
    /\ enriched_df = <<>>
    /\ metadata = InitialMetadata
    /\ summary = NoSummary
    /\ NoOutput
    /\ PivotIdle

EnrichData ==
    /\ pc = "loaded"
    /\ enriched_df' = enrich_data(df, priority_df)
    /\ pc' = "enriched"
    /\ UNCHANGED <<df, priority_df, metadata, summary, output_vars>>
    /\ UNCHANGED pivot_vars

\* a summary whose score is guarded: an empty table scores 0 and the run
\* goes on
GenerateExecutiveSummaryGuarded ==
    /\ pc = "enriched"
    /\ metadata' = [total_controls   |-> Len(df),
                    compliance_score |-> IF Len(df) = 0 THEN <<0, 1>>
                                         ELSE compliance_score(df)]
    /\ summary' = [high_risk_services  |-> high_risk_services(enriched_df),
                   top_recommendations |-> _extract_top_recommendations(enriched_df)]
    /\ pc' = "summarized"
    /\ UNCHANGED <<df, priority_df, enriched_df, output_vars>>
    /\ UNCHANGED pivot_vars

\* calculate_compliance_score runs first; on an empty table its division
\* raises ZeroDivisionError and nothing has been stored
GenerateExecutiveSummary ==
    /\ pc = "enriched"
    /\ \/ /\ Len(df) = 0
          /\ pc' = "failed"
          /\ UNCHANGED <<metadata, summary>>
       \/ /\ Len(df) > 0
          /\ metadata' = [total_controls   |-> Len(df),
                          compliance_score |-> compliance_score(df)]
          /\ summary' = [high_risk_services  |-> high_risk_services(enriched_df),
                         top_recommendations |-> _extract_top_recommendations(enriched_df)]
          /\ pc' = "summarized"
    /\ UNCHANGED <<df, priority_df, enriched_df, output_vars>>
    /\ UNCHANGED pivot_vars

Next == EnrichData \/ GenerateExecutiveSummary

Spec == Init /\ [][Next]_vars

----------------------------------------------------------------------------
(* heatmap_adder.py: the rest of generate_comprehensive_report, and main.  *)
(*   pc = "visualized" generate_visualizations has saved both charts       *)
(*   pc = "json_saved" the executive summary is written as JSON            *)
(*   pc = "reported"   the workbook is written and the paths are printed   *)
(*   pc = "exited"     main has handled the exception and returned         *)

HeatmapFile == "priority_heatmap.png"

RiskChartFile == "risk_score_chart.png"

JsonFile == "executive_summary.json"

ExcelFile == "compliance_report.xlsx"

\* print(f"An error occurred: {e}") for the ZeroDivisionError
ErrorMessage == "An error occurred: division by zero"

ReportMessage == "Comprehensive report generated:"

\* generate_visualizations: plt.savefig of the heatmap and of the bar chart
GenerateVisualizations ==
    /\ pc = "summarized"
    /\ artifacts' = artifacts \cup {HeatmapFile, RiskChartFile}
    /\ pc' = "visualized"
    /\ UNCHANGED <<df, priority_df, enriched_df, metadata, summary, printed>>
    /\ UNCHANGED pivot_vars

\* json.dump(exec_summary, f, indent=2)
SaveExecutiveSummary ==
    /\ pc = "visualized"
    /\ artifacts' = artifacts \cup {JsonFile}
    /\ pc' = "json_saved"
    /\ UNCHANGED <<df, priority_df, enriched_df, metadata, summary, printed>>
    /\ UNCHANGED pivot_vars

\* the ExcelWriter block and the prints that follow it
WriteExcelReport ==
    /\ pc = "json_saved"
    /\ artifacts' = artifacts \cup {ExcelFile}
    /\ printed' = Append(printed, ReportMessage)
    /\ pc' = "reported"
    /\ UNCHANGED <<df, priority_df, enriched_df, metadata, summary>>
    /\ UNCHANGED pivot_vars

\* main's "except Exception as e": the error is logged and printed, and
\* main returns
ReportError ==
    /\ pc = "failed"
    /\ printed' = Append(printed, ErrorMessage)
    /\ pc' = "exited"
    /\ UNCHANGED <<df, priority_df, enriched_df, metadata, summary, artifacts>>
    /\ UNCHANGED pivot_vars

NextReport ==
    \/ Next
    \/ GenerateVisualizations
    \/ SaveExecutiveSummary
    \/ WriteExcelReport
    \/ ReportError

SpecReport == Init /\ [][NextReport]_vars

\* C11: when the loaded compliance table has no rows,
\* generate_comprehensive_report fails with the division by zero of
\* calculate_compliance_score before any artifact is written (no chart, no
\* JSON summary, no workbook), metadata keeps total_controls 0 and
\* compliance_score 0.0, and main prints the error and ends, without a retry.
C11_EmptyTableFails ==
    Len(df) = 0 =>
        /\ pc \in {"loaded", "enriched", "failed", "exited"}
        /\ pc = "enriched" => ENABLED (GenerateExecutiveSummary /\ pc' = "failed")
        /\ artifacts = {}
        /\ metadata.total_controls = 0
        /\ metadata.compliance_score = <<0, 1>>
        /\ summary = NoSummary
        /\ pc \in {"loaded", "enriched", "failed"} => printed = <<>>
        /\ pc = "exited" =>
              /\ printed = <<ErrorMessage>>
              /\ ~ENABLED NextReport

\* main has ended on an empty table, beside a reference table with rows
C11_Witness ==
    /\ pc = "exited"
    /\ Len(df) = 0
    /\ Len(priority_df) > 0
    /\ printed = <<ErrorMessage>>
    /\ artifacts = {}

----------------------------------------------------------------------------
(* Claims about enrich_data and calculate_compliance_score.                *)

\* enrich_data has just returned enriched_df (no later step changes it)
Enriched == pc = "enriched"

\* the specification's tables, in exact decimal arithmetic (hundredths)
SpecImpact(priority) ==
    IF priority = "High" THEN 10
    ELSE IF priority = "Medium" THEN 5
    ELSE IF priority = "Low" THEN 2
    ELSE 0

SpecMultiplierTenths(status) ==
    IF status = "alarm" THEN 15
    ELSE IF status \in {"ok", "skip"} THEN 1
    ELSE IF status = "info" THEN 2
    ELSE 10

SpecScore(priority, status) == SpecImpact(priority) * SpecMultiplierTenths(status) * 10

\* C1: every row enrich_data returns has risk_score =
\* round(priority_impact(priority) * status_multiplier(status), 2) for the
\* priority attached to the row and the row's status, so that two rows with
\* the same (priority, status) pair have the same score.
C1_RiskScoreFormula ==
    Enriched =>
        /\ \A i \in 1..Len(enriched_df) :
              enriched_df[i].risk_score =
                  SpecScore(enriched_df[i].priority, enriched_df[i].status)
        /\ \A i, j \in 1..Len(enriched_df) :
              (/\ enriched_df[i].priority = enriched_df[j].priority
               /\ enriched_df[i].status = enriched_df[j].status)
              => enriched_df[i].risk_score = enriched_df[j].risk_score

\* a High/alarm row scored 15.0 beside a row of another status scored otherwise
C1_Witness ==
    /\ pc = "enriched"
    /\ \E i, j \in 1..Len(enriched_df) :
          /\ enriched_df[i].priority = "High"
          /\ enriched_df[i].status = "alarm"
          /\ enriched_df[i].risk_score = 1500
          /\ enriched_df[j].priority = "High"
          /\ enriched_df[j].status = "info"
          /\ enriched_df[j].risk_score = 200

Unmatched(i) ==
    \A j \in 1..Len(priority_df) : priority_df[j].control_title # df[i].control_title

\* C2: a compliance row whose control_title is the control_title of no
\* reference row does not stop enrich_data, and is emitted with priority
\* "No Priority", recommendation "No recommendation available" and
\* risk_score 0, whatever its status.
C2_UnmatchedDefaults ==
    /\ pc = "loaded" => ENABLED EnrichData
    /\ Enriched =>
          /\ Len(enriched_df) = Len(df)
          /\ \A i \in 1..Len(df) :
                Unmatched(i) =>
                    /\ enriched_df[i].priority = "No Priority"
                    /\ enriched_df[i].recommendation = "No recommendation available"
                    /\ enriched_df[i].risk_score = 0

\* an unmatched alarm row enriched beside a reference table that is not empty
C2_Witness ==
    /\ pc = "enriched"
    /\ Len(priority_df) > 0
    /\ \E i \in 1..Len(df) :
          /\ Unmatched(i)
          /\ df[i].status = "alarm"
          /\ enriched_df[i].priority = "No Priority"

IsFirstMatch(i, j) ==
    /\ priority_df[j].control_title = df[i].control_title
    /\ \A k \in 1..(j - 1) : priority_df[k].control_title # df[i].control_title

\* C3: enrich_data returns one enriched row per compliance row, in the input
\* order, and the priority and recommendation of a row are those of the first
\* reference row whose control_title equals the row's, also when several
\* reference rows share it with different priorities.
C3_OneRowFirstMatch ==
    Enriched =>
        /\ Len(enriched_df) = Len(df)
        /\ \A i \in 1..Len(df) :
              /\ enriched_df[i].title = df[i].title
              /\ enriched_df[i].control_title = df[i].control_title
              /\ enriched_df[i].status = df[i].status
              /\ \A j \in 1..Len(priority_df) :
                    IsFirstMatch(i, j) =>
                        /\ enriched_df[i].priority = priority_df[j].priority
                        /\ enriched_df[i].recommendation = priority_df[j].recommendation

\* two reference rows share a control_title with different priorities, and a
\* compliance row of that control_title got the first one's
C3_Witness ==
    /\ pc = "enriched"
    /\ \E i \in 1..Len(df) : \E j, k \in 1..Len(priority_df) :
          /\ j < k
          /\ IsFirstMatch(i, j)
          /\ priority_df[k].control_title = df[i].control_title
          /\ priority_df[k].priority # priority_df[j].priority
          /\ enriched_df[i].priority = priority_df[j].priority

PassedRows == {i \in 1..Len(df) : df[i].status \in {"ok", "info", "skip"}}

\* C4: on a non-empty table calculate_compliance_score returns
\* 100 * (rows with status ok, info or skip) / (all rows): within [0, 100],
\* 100 when every row passed, 0 when every row is alarm; any other status
\* counts as not passed.
C4_ComplianceScore ==
    (pc = "summarized" /\ Len(df) > 0) =>
        LET num == metadata.compliance_score[1]
            den == metadata.compliance_score[2]
        IN  /\ den > 0
            /\ num * Len(df) = 100 * Cardinality(PassedRows) * den
            /\ 0 <= num /\ num <= 100 * den
            /\ (\A i \in 1..Len(df) : df[i].status \in {"ok", "info", "skip"})
                  => num = 100 * den
            /\ (\A i \in 1..Len(df) : df[i].status = "alarm") => num = 0
            /\ metadata.total_controls = Len(df)

\* a table with one passed row and one row of a status that is neither
\* passed nor alarm: the score is 50
C4_Witness ==
    /\ pc = "summarized"
    /\ Len(df) = 2
    /\ \E i, j \in 1..2 : df[i].status = "skip" /\ df[j].status = "error"
    /\ metadata.compliance_score[1] * 2 = 100 * metadata.compliance_score[2]

----------------------------------------------------------------------------
(* The reporter on tables of many services: the reference table is fixed   *)
(* (A is High, B is Low, C is absent), every row is in alarm, and row i is *)
(* of the i-th service of the pool or of the one before it in the pool.    *)

ServicePool == <<"S3", "EC2", "IAM", "RDS", "VPC", "KMS", "ACM", "ECS">>

SummaryReference ==
    <<[control_title |-> "A", priority |-> "High", recommendation |-> "rec1"],
      [control_title |-> "B", priority |-> "Low", recommendation |-> "rec2"]>>

\* the table that the choices f make, row by row
SummaryTable(f) ==
    [i \in 1..Len(f) |->
        [title         |-> IF f[i].own \/ i = 1 THEN ServicePool[i]
                                           ELSE ServicePool[i - 1],
         control_title |-> f[i].control_title,
         status        |-> "alarm"]]

InitSummary ==
    /\ pc = "loaded"
    /\ \E f \in SeqsUpTo([own : BOOLEAN, control_title : {"A", "B", "C"}], MaxEnriched) :
          df = SummaryTable(f)
    /\ priority_df = SummaryReference
    /\ enriched_df = <<>>
    /\ metadata = InitialMetadata
    /\ summary = NoSummary
    /\ NoOutput
    /\ PivotIdle

SpecSummary == InitSummary /\ [][Next]_vars

----------------------------------------------------------------------------
(* Claims about the executive summary.                                     *)

Ranking == summary.high_risk_services

RECURSIVE RiskOver(_)
RiskOver(I) ==
    IF I = {} THEN 0
    ELSE LET i == CHOOSE x \in I : TRUE
         IN  enriched_df[i].risk_score + RiskOver(I \ {i})

RowsOf(t) == {i \in 1..Len(enriched_df) : enriched_df[i].title = t}

\* the sum of risk_score over all rows of service t
TotalRisk(t) == RiskOver(RowsOf(t))

\* the sum of risk_score over the rows of service t that score above 5
HighRisk(t) == RiskOver({i \in RowsOf(t) : enriched_df[i].risk_score > 500})

TitlesOf == {enriched_df[i].title : i \in 1..Len(enriched_df)}

RankedTitles == {Ranking[k].title : k \in 1..Len(Ranking)}

NonIncreasing(s) ==
    \A k \in 1..(Len(s) - 1) : s[k].risk_score >= s[k + 1].risk_score

\* The ranking is the five largest, descending, of the services whose
\* Score(t) exceeds 5, each ranked with Score(t).
IsTopFive(Score(_), eligible) ==
    /\ Len(Ranking) = Min(5, Cardinality(eligible))
    /\ Cardinality(RankedTitles) = Len(Ranking)
    /\ \A k \in 1..Len(Ranking) :
          /\ Ranking[k].title \in eligible
          /\ Ranking[k].risk_score = Score(Ranking[k].title)
    /\ \A t \in eligible \ RankedTitles :
          \A k \in 1..Len(Ranking) : Ranking[k].risk_score >= Score(t)
    /\ NonIncreasing(Ranking)

\* C5 as stated: the ranking groups all enriched rows by title, sums
\* risk_score over all rows of each service, keeps the services whose sum is
\* above 5 and returns the five largest sums, descending.
C5_SumThenFilter ==
    pc = "summarized" =>
        IsTopFive(TotalRisk, {t \in TitlesOf : TotalRisk(t) > 500})

\* C5 amended: the ranking keeps the rows whose own risk_score is above 5,
\* groups these by title, sums risk_score over the kept rows of each service
\* and returns the five largest sums, descending; a service none of whose
\* rows scores above 5 is not ranked, whatever its rows sum to.
C5_FilterThenSum ==
    pc = "summarized" =>
        /\ IsTopFive(HighRisk, {t \in TitlesOf : HighRisk(t) > 0})
        /\ \A t \in TitlesOf :
              (\A i \in RowsOf(t) : enriched_df[i].risk_score <= 500)
              => t \notin RankedTitles

\* a ranked service with rows above and below 5, ranked with less than the
\* sum of all its rows, and an unranked service whose rows sum to more than 5
C5_Witness ==
    /\ pc = "summarized"
    /\ \E k \in 1..Len(Ranking) :
          /\ Ranking[k].risk_score = 1500
          /\ TotalRisk(Ranking[k].title) = 1800
    /\ \E t \in TitlesOf \ RankedTitles : TotalRisk(t) > 500

\* C6: the ranking has at most five entries, and none whose cumulative
\* risk_score in the ranking is 5 or less.
C6_AtMostFiveAboveThreshold ==
    pc = "summarized" =>
        /\ Len(Ranking) <= 5
        /\ \A k \in 1..Len(Ranking) : Ranking[k].risk_score > 500

\* six services with a row above 5, five of them ranked
C6_Witness ==
    /\ pc = "summarized"
    /\ Cardinality({t \in TitlesOf : HighRisk(t) > 0}) = 6
    /\ Len(Ranking) = 5

Recs == summary.top_recommendations

PositiveRows == {i \in 1..Len(enriched_df) : enriched_df[i].risk_score > 0}

IsRecordOf(rec, row) ==
    /\ rec.title = row.title
    /\ rec.control_title = row.control_title
    /\ rec.recommendation = row.recommendation
    /\ rec.risk_score = row.risk_score

\* C8: _extract_top_recommendations returns min(5, rows with risk_score > 0)
\* records, each with risk_score > 0, in non-increasing risk_score order, no
\* row left out scoring strictly more than a returned one, and each record
\* with exactly the fields title, control_title, recommendation, risk_score
\* of its row.
C8_TopRecommendations ==
    pc = "summarized" =>
        /\ Len(Recs) = Min(5, Cardinality(PositiveRows))
        /\ NonIncreasing(Recs)
        /\ \A k \in 1..Len(Recs) :
              /\ Recs[k].risk_score > 0
              /\ DOMAIN Recs[k] = {"title", "control_title", "recommendation", "risk_score"}
              \* the records are rows of the table, none taken twice
              /\ Cardinality({j \in 1..Len(Recs) : Recs[j] = Recs[k]})
                    <= Cardinality({i \in PositiveRows : IsRecordOf(Recs[k], enriched_df[i])})
              \* every row that scores more than a returned one is returned
              /\ Cardinality({i \in PositiveRows :
                                 enriched_df[i].risk_score > Recs[k].risk_score})
                    = Cardinality({j \in 1..Len(Recs) :
                                      Recs[j].risk_score > Recs[k].risk_score})

\* six rows, one of score 0 and one of positive score left out of the five
\* returned, which hold two different scores
C8_Witness ==
    /\ pc = "summarized"
    /\ Len(enriched_df) = 6
    /\ Cardinality(PositiveRows) = 6
    /\ Len(Recs) = 5
    /\ Recs[1].risk_score > Recs[5].risk_score

----------------------------------------------------------------------------
(* powerpipe_graph_analysis_pivot_table.py:                                *)
(* create_simplified_report_with_pivot                                     *)

\* the keys of the categories dict, in its order
CategoryNames == <<"Security and Identity", "Compute", "Storage", "Network",
                   "Database", "Other">>

\* categories[name]: the service titles of a category
categories(name) ==
    CASE name = "Security and Identity" ->
            {"IAM", "ACM", "KMS", "GuardDuty", "Secret Manager", "Secret Hub", "SSM"}
      [] name = "Compute" ->
            {"Auto Scaling", "EC2", "ECS", "EKS", "Lambda", "EMR", "Step Functions"}
      [] name = "Storage" ->
            {"EBS", "ECR", "S3", "DLM", "Backup"}
      [] name = "Network" ->
            {"API Gateway", "CloudFront", "Route 53", "VPC", "ELB", "ElasticCache",
             "CloudTrail"}
      [] name = "Database" ->
            {"RDS", "DynamoDB", "Athena", "Glue"}
      [] name = "Other" ->
            {"CloudFormation", "CodeDeploy", "Config", "SNS", "SQS", "WorkSpaces",
             "EventBridge"}

\* the missing value pandas writes where a lookup finds nothing
NaN == "NaN"

\* df['priority'].map(priority_map): a number the map lacks becomes NaN
priority_map(p) ==
    CASE p = 1 -> "High"
      [] p = 2 -> "Medium"
      [] p = 3 -> "Low"
      [] OTHER -> NaN

\* lambda x: 1 if x == 'alarm' else 0
is_open_issue(status) == IF status = "alarm" THEN 1 ELSE 0

\* the table after the status, is_open_issue and priority columns are set
PrepareReport(table) ==
    [i \in 1..Len(table) |->
        [title               |-> table[i].title,
         control_title       |-> table[i].control_title,
         control_description |-> table[i].control_description,
         status              |-> table[i].status,
         is_open_issue       |-> is_open_issue(table[i].status),
         priority            |-> priority_map(table[i].priority)]]

\* df[df['status'] != 'alarm']
safe_df(table) == SelectSeq(table, LAMBDA r : r.status # "alarm")

\* df[df['title'].isin(categories[service])]
service_df(table, name) == SelectSeq(table, LAMBDA r : r.title \in categories(name))

GroupKey(r) == <<r.title, r.control_title, r.control_description, r.priority>>

\* the order of two group keys: column by column, in str order
KeyBefore(a, b) ==
    \E n \in 1..4 :
        /\ \A m \in 1..(n - 1) : a[m] = b[m]
        /\ StrRank(a[n]) < StrRank(b[n])

RECURSIVE SortedGroupKeys(_)
SortedGroupKeys(S) ==
    IF S = {} THEN <<>>
    ELSE LET k == CHOOSE x \in S : \A y \in S \ {x} : KeyBefore(x, y)
         IN  <<k>> \o SortedGroupKeys(S \ {k})

\* groupby drops the rows with a missing value in a key column (dropna=True)
GroupableRows(rows) == SelectSeq(rows, LAMBDA r : r.priority # NaN)

\* an aggregation that counts the rows of a group
CountOfGroup(rows, key) == Len(SelectSeq(rows, LAMBDA r : GroupKey(r) = key))

\* .agg({'is_open_issue': 'sum'}) for one group
SumOfGroup(rows, key) ==
    LET members == SelectSeq(rows, LAMBDA r : GroupKey(r) = key)
    IN  SumSeq([j \in 1..Len(members) |-> members[j].is_open_issue])

\* .groupby([title, control_title, control_description, priority],
\*          as_index=False).agg({'is_open_issue': 'sum'}), in key order
service_grouped(rows) ==
    LET kept == GroupableRows(rows)
        keys == SortedGroupKeys({GroupKey(kept[i]) : i \in 1..Len(kept)})
    IN  [k \in 1..Len(keys) |->
            [title               |-> keys[k][1],
             control_title       |-> keys[k][2],
             control_description |-> keys[k][3],
             priority            |-> keys[k][4],
             is_open_issue       |-> SumOfGroup(kept, keys[k])]]

\* the rows appended for the groups of one category, numbered from first_no
SummaryRows(grouped, first_no) ==
    [k \in 1..Len(grouped) |->
        [SrNo        |-> first_no + k - 1,
         Service     |-> grouped[k].title,
         ControlTitle |-> grouped[k].control_title,
         Description |-> grouped[k].control_description,
         OpenIssues  |-> grouped[k].is_open_issue,
         Priority    |-> grouped[k].priority]]

BlankRow ==
    [SrNo |-> "", Service |-> "", ControlTitle |-> "", Description |-> "",
     OpenIssues |-> "", Priority |-> ""]

\* the end of one loop iteration: the rows of the category are appended, then
\* "if summary_data:" appends a blank row when the list is not empty
WithSeparator(data, added) ==
    IF Len(data \o added) > 0 THEN Append(data \o added, BlankRow) ELSE data \o added

\* df[df['status'] == 'alarm']
unsafe_df(table) == SelectSeq(table, LAMBDA r : r.status = "alarm")

----------------------------------------------------------------------------
(* The workbook round trip and create_graphs.                              *)

\* the strings read_excel takes as missing values, the empty cell included
NaStrings ==
    {"", "#N/A", "#N/A N/A", "#NA", "-1.#IND", "-1.#QNAN", "-NaN", "-nan",
     "1.#IND", "1.#QNAN", "<NA>", "N/A", "NA", "NULL", "NaN", "None", "n/a",
     "nan", "null"}

\* to_excel: a missing value is written as an empty cell
WriteCell(v) == IF v = NaN THEN "" ELSE v

\* read_excel: an empty cell or a missing-value string is read as NaN
ReadCell(c) == IF c \in NaStrings THEN NaN ELSE c

\* DataFrame.to_excel(writer, sheet_name=..., index=False): the text columns
\* cell by cell, the numbers of is_open_issue as they are
ToSheet(table) ==
    [i \in 1..Len(table) |->
        [title               |-> WriteCell(table[i].title),
         control_title       |-> WriteCell(table[i].control_title),
         control_description |-> WriteCell(table[i].control_description),
         status              |-> WriteCell(table[i].status),
         is_open_issue       |-> table[i].is_open_issue,
         priority            |-> WriteCell(table[i].priority)]]

\* pd.read_excel of one sheet
FromSheet(sheet) ==
    [i \in 1..Len(sheet) |->
        [title               |-> ReadCell(sheet[i].title),
         control_title       |-> ReadCell(sheet[i].control_title),
         control_description |-> ReadCell(sheet[i].control_description),
         status              |-> ReadCell(sheet[i].status),
         is_open_issue       |-> sheet[i].is_open_issue,
         priority            |-> ReadCell(sheet[i].priority)]]

\* a read of the sheet of the alarm rows
ReadUnsafeSheet(book) == FromSheet(book.unsafe)

\* pd.read_excel(final_report_file, sheet_name='safe')
ReadSafeSheet(book) == FromSheet(book.safe)

\* df.groupby(column)['is_open_issue'].sum(): one entry per value of the
\* column, in key order; rows where the column is missing are dropped
OpenIssuesBy(table, column) ==
    LET kept == SelectSeq(table, LAMBDA r : r[column] # NaN)
        keys == SortedKeys({kept[i][column] : i \in 1..Len(kept)})
    IN  [k \in 1..Len(keys) |->
            [key   |-> keys[k],
             value |-> SumSeq([j \in 1..Len(SelectSeq(kept, LAMBDA r : r[column] = keys[k]))
                                |-> SelectSeq(kept, LAMBDA r : r[column] = keys[k])[j].is_open_issue])]]

\* the three series create_graphs computes from is_open_issue and status
\* (the count of safe controls by service carries neither, and is left out)
GraphSeries(table) ==
    [open_issues_by_service |-> OpenIssuesBy(table, "title"),
     priority_breakdown     |-> OpenIssuesBy(table, "priority"),
     safe_unsafe_controls   |-> <<Len(SelectSeq(table, LAMBDA r : r.status # "alarm")),
                                  Len(SelectSeq(table, LAMBDA r : r.status = "alarm"))>>]

----------------------------------------------------------------------------
(* The pivot report as a state machine.                                    *)
(*   pc = "report_read"  the report file has been read into df             *)
(*   pc = "table"        the loop building summary_data, at category       *)
(*                       CategoryNames[service]                            *)
(*   pc = "table_safe"   the loop building safe_summary_data               *)
(*   pc = "pivot_done"   both summaries are built, the workbook is written *)
(*   pc = "sheet_read"   main has read the 'safe' sheet back               *)
(*   pc = "graphs_done"  create_graphs has computed its series             *)

PivotTitles == {"IAM", "S3", "Account"}

\* 4 is a priority that priority_map lacks
PivotPriorities == {1, 2, 4}

PivotRows ==
    [title : PivotTitles, control_title : {"A", "B"}, control_description : {"d"},
     priority : PivotPriorities, status : {"alarm", "ok"}]

InitPivot ==
    /\ pc = "report_read"
    /\ report_df \in SeqsUpTo(PivotRows, MaxPivotRows)
    /\ summary_data = <<>>
    /\ safe_summary_data = <<>>
    /\ service = 0
    /\ sr_no = 0
    /\ sr_no_safe = 0
    /\ workbook = NoWorkbook
    /\ graph_df = <<>>
    /\ charts = NoCharts
    /\ df = <<>>
    /\ priority_df = <<>>
    /\ enriched_df = <<>>
    /\ metadata = InitialMetadata
    /\ summary = NoSummary
    /\ NoOutput

\* lines 29-48: the columns are set, the lists and counters initialised
StartReport ==
    /\ pc = "report_read"
    /\ report_df' = PrepareReport(report_df)
    /\ summary_data' = <<>>
    /\ sr_no' = 1
    /\ service' = 1
    /\ pc' = "table"
    /\ UNCHANGED <<safe_summary_data, sr_no_safe, graph_vars>>
    /\ UNCHANGED reporter_vars

\* one iteration of "for service in categories.keys()" over df; leaving the
\* loop initialises the second loop's list and counter
SummarizeCategory ==
    /\ pc = "table"
    /\ LET grouped == service_grouped(service_df(report_df, CategoryNames[service]))
       IN  /\ summary_data' = WithSeparator(summary_data, SummaryRows(grouped, sr_no))
           /\ sr_no' = sr_no + Len(grouped)
    /\ \/ /\ service < Len(CategoryNames)
          /\ service' = service + 1
          /\ UNCHANGED <<pc, safe_summary_data, sr_no_safe>>
       \/ /\ service = Len(CategoryNames)
          /\ service' = 1
          /\ safe_summary_data' = <<>>
          /\ sr_no_safe' = 1
          /\ pc' = "table_safe"
    /\ UNCHANGED <<report_df, graph_vars>>
    /\ UNCHANGED reporter_vars

\* one iteration of "for service in categories.keys()" over safe_df
SummarizeCategorySafe ==
    /\ pc = "table_safe"
    /\ LET grouped == service_grouped(service_df(safe_df(report_df),
                                                 CategoryNames[service]))
       IN  /\ safe_summary_data' =
                  WithSeparator(safe_summary_data, SummaryRows(grouped, sr_no_safe))
           /\ sr_no_safe' = sr_no_safe + Len(grouped)
    /\ \/ /\ service < Len(CategoryNames)
          /\ service' = service + 1
          /\ UNCHANGED pc
          /\ UNCHANGED workbook
       \/ /\ service = Len(CategoryNames)
          /\ service' = 0
          /\ workbook' = [safe   |-> ToSheet(safe_df(report_df)),
                          unsafe |-> ToSheet(unsafe_df(report_df))]
          /\ pc' = "pivot_done"
    /\ UNCHANGED <<report_df, summary_data, sr_no, graph_df, charts>>
    /\ UNCHANGED reporter_vars

\* main: df = pd.read_excel(final_report_file, sheet_name='safe')
LoadGraphTable ==
    /\ pc = "pivot_done"
    /\ graph_df' = ReadSafeSheet(workbook)
    /\ pc' = "sheet_read"
    /\ UNCHANGED <<report_df, summary_data, safe_summary_data, service, sr_no,
                   sr_no_safe, workbook, charts>>
    /\ UNCHANGED reporter_vars

\* main: create_graphs(df, final_report_file); the series handed to the
\* plots are kept, their rendering is not modelled
CreateGraphs ==
    /\ pc = "sheet_read"
    /\ charts' = GraphSeries(graph_df)
    /\ pc' = "graphs_done"
    /\ UNCHANGED <<report_df, summary_data, safe_summary_data, service, sr_no,
                   sr_no_safe, workbook, graph_df>>
    /\ UNCHANGED reporter_vars

NextPivot ==
    \/ StartReport
    \/ SummarizeCategory
    \/ SummarizeCategorySafe
    \/ LoadGraphTable
    \/ CreateGraphs

SpecPivot == InitPivot /\ [][NextPivot]_vars

----------------------------------------------------------------------------
(* Claims about the category summaries.                                    *)

AllIndices == 1..Len(report_df)

SafeIndices == {i \in AllIndices : report_df[i].status # "alarm"}

\* the rows of the row set I whose title is in the category's service list
InCategory(I, name) == {i \in I : report_df[i].title \in categories(name)}

\* distinct (title, control_title, control_description, priority)
\* combinations of the category in the row set I, plus one separator if the
\* category has a row in I
ExpectedRowCount(I, name) ==
    Cardinality({GroupKey(report_df[i]) : i \in InCategory(I, name)})
        + (IF InCategory(I, name) # {} THEN 1 ELSE 0)

\* C9 as stated: in each summary sequence the rows emitted for a category
\* are as many as the distinct (title, control_title, control_description,
\* priority) combinations among the rows whose title is in the category's
\* service list, plus one blank separator row if and only if the category had
\* a matching row; for every category, in the fixed order, for every input.
C9_CategoryRowCount ==
    [][/\ pc = "table" =>
            Len(summary_data') - Len(summary_data)
                = ExpectedRowCount(AllIndices, CategoryNames[service])
       /\ pc = "table_safe" =>
            Len(safe_summary_data') - Len(safe_summary_data)
                = ExpectedRowCount(SafeIndices, CategoryNames[service])]_vars

IsBlank(r) == r.Service = ""

\* the alarm rows of the row set I with the combination of summary row r
AlarmRowsOf(I, r) ==
    {i \in I : /\ GroupKey(report_df[i])
                     = <<r.Service, r.ControlTitle, r.Description, r.Priority>>
               /\ report_df[i].status = "alarm"}

RECURSIVE TotalOpenIssues(_)
TotalOpenIssues(s) ==
    IF Len(s) = 0 THEN 0
    ELSE (IF IsBlank(Head(s)) THEN 0 ELSE Head(s).OpenIssues)
             + TotalOpenIssues(Tail(s))

\* the alarm rows that are in a group of some category: the title is in a
\* category's list and the priority is one the map knows
GroupedAlarmRows ==
    {i \in AllIndices :
        /\ report_df[i].status = "alarm"
        /\ \E c \in 1..Len(CategoryNames) : report_df[i].title \in categories(CategoryNames[c])
        /\ report_df[i].priority # NaN}

\* C10: the Open Issues of a non-blank summary row is the number of rows, in
\* the row set its summary is built from, that have the row's (title,
\* control_title, control_description, priority) combination and status
\* "alarm"; so every non-blank row of table_safe has Open Issues 0, and the
\* Open Issues of table sum to the number of alarm rows in the groups.
C10_OpenIssues ==
    pc \in {"table", "table_safe", "pivot_done"} =>
        /\ \A k \in 1..Len(summary_data) :
              ~IsBlank(summary_data[k]) =>
                  summary_data[k].OpenIssues
                      = Cardinality(AlarmRowsOf(AllIndices, summary_data[k]))
        /\ \A k \in 1..Len(safe_summary_data) :
              ~IsBlank(safe_summary_data[k]) =>
                  /\ safe_summary_data[k].OpenIssues
                        = Cardinality(AlarmRowsOf(SafeIndices, safe_summary_data[k]))
                  /\ safe_summary_data[k].OpenIssues = 0
        /\ pc \in {"table_safe", "pivot_done"} =>
              TotalOpenIssues(summary_data) = Cardinality(GroupedAlarmRows)

\* a group with an alarm row and a safe row: one open issue in table, the
\* same combination with none in table_safe, beside an alarm row that is in
\* no group
C10_Witness ==
    /\ pc = "pivot_done"
    /\ \E k \in 1..Len(summary_data) : \E j \in 1..Len(safe_summary_data) :
          /\ ~IsBlank(summary_data[k])
          /\ ~IsBlank(safe_summary_data[j])
          /\ summary_data[k].Service = safe_summary_data[j].Service
          /\ summary_data[k].ControlTitle = safe_summary_data[j].ControlTitle
          /\ summary_data[k].Priority = safe_summary_data[j].Priority
          /\ summary_data[k].OpenIssues = 1
          /\ safe_summary_data[j].OpenIssues = 0

----------------------------------------------------------------------------
(* Claim about the table charted by the pivot script's main.               *)

AlarmIndices == {i \in AllIndices : report_df[i].status = "alarm"}

AllZero(series) == \A k \in 1..Len(series) : series[k].value = 0

\* C12: the table main hands to create_graphs is the 'safe' sheet read back
\* from the workbook just written, so it holds only rows whose status is not
\* "alarm": every per-service and per-priority sum of open issues charted is
\* 0 and the unsafe count of the safe-vs-unsafe chart is 0, however many
\* alarm rows the input has.
C12_GraphsSeeOnlySafeRows ==
    pc \in {"sheet_read", "graphs_done"} =>
        /\ Len(graph_df) = Cardinality(SafeIndices)
        /\ \A i \in 1..Len(graph_df) :
              /\ graph_df[i].status # "alarm"
              /\ graph_df[i].is_open_issue = 0
        /\ pc = "graphs_done" =>
              /\ AllZero(charts.open_issues_by_service)
              /\ AllZero(charts.priority_breakdown)
              /\ charts.safe_unsafe_controls = <<Cardinality(SafeIndices), 0>>

\* an input with an alarm row and a safe row of a known priority: both the
\* per-service and the per-priority series have an entry, and it is 0
C12_Witness ==
    /\ pc = "graphs_done"
    /\ AlarmIndices # {}
    /\ Len(workbook.unsafe) > 0
    /\ Len(charts.open_issues_by_service) > 0
    /\ Len(charts.priority_breakdown) > 0
    /\ charts.safe_unsafe_controls = <<1, 0>>

====
